---- MODULE Spec2Model ----
(***************************************************************************)
(* Model of the_toob/UploaderPage.py: the page-interaction driver that     *)
(* fills the upload form through a browser-automation handle.              *)
(*                                                                         *)
(* Text (locator values, progress texts, hrefs) is a sequence of           *)
(* one-character strings so that lower(), replace(), slicing, split() and  *)
(* the regular expression (\d+)% are computed, not assumed.                *)
(*                                                                         *)
(* A call is summarised in the variable `call`: which method ran, how it   *)
(* ended (returned / raised, and with which error), what it returned, and  *)
(* the ordered trace of the calls it made on its collaborators (driver,    *)
(* logger, file system, clock).                                            *)
(***************************************************************************)
EXTENDS Integers, Sequences, FiniteSets, TLC

VARIABLES
    crashRoot,   \* the "crash" directory of the working directory: "absent" or "dir"
    crashDirs,   \* names of the crash-event directories that exist under crash/
    call,        \* the last call (or polling iteration) and what it did
    progress,    \* the page's upload-progress element: <<"gone">> or <<"text", t>>
    wu_pc,       \* position of wait_for_upload_to_complete
    checked,     \* per toggle control: is its "checked" attribute set
    clicks,      \* per toggle control: synthetic clicks issued so far
    fields       \* per text field (test double): the text chunks it holds, and whether all is selected

vars == <<crashRoot, crashDirs, call, progress, wu_pc, checked, clicks, fields>>

----------------------------------------------------------------------------
(* Bounds *)

MaxTs == 0          \* timestamps (second resolution) are drawn from 0..MaxTs
MaxClicks == 2      \* toggle calls stop once a control has been clicked this often
MaxContent == 6     \* a field holds at most this many characters

Timestamps == 0 .. MaxTs

----------------------------------------------------------------------------
(* Text helpers *)

UpperAlpha == <<"A", "B", "C", "D", "E", "F", "G", "H", "I", "J", "K", "L", "M", "N", "O", "P", "Q", "R", "S", "T", "U", "V", "W", "X", "Y", "Z">>
LowerAlpha == <<"a", "b", "c", "d", "e", "f", "g", "h", "i", "j", "k", "l", "m", "n", "o", "p", "q", "r", "s", "t", "u", "v", "w", "x", "y", "z">>
Digits == {"0", "1", "2", "3", "4", "5", "6", "7", "8", "9"}

\* str.lower() on one character
LowerChar(c) ==
    IF \E i \in 1..Len(UpperAlpha) : UpperAlpha[i] = c
    THEN LowerAlpha[CHOOSE i \in 1..Len(UpperAlpha) : UpperAlpha[i] = c]
    ELSE c

\* str.lower()
Lower(s) == [i \in 1..Len(s) |-> LowerChar(s[i])]

\* does sub occur at position i of s
OccursAt(sub, s, i) ==
    /\ i >= 1
    /\ i + Len(sub) - 1 <= Len(s)
    /\ SubSeq(s, i, i + Len(sub) - 1) = sub

\* Python's `sub in s`
Contains(sub, s) == \E i \in 1..(Len(s) + 1) : OccursAt(sub, s, i)

\* Python's s[:n]
Take(s, n) == SubSeq(s, 1, IF Len(s) < n THEN Len(s) ELSE n)

\* Python's s.replace(old, new) for non-empty old: left to right, non-overlapping
RECURSIVE ReplaceFrom(_, _, _, _)
ReplaceFrom(s, old, new, i) ==
    IF i > Len(s) THEN <<>>
    ELSE IF OccursAt(old, s, i) THEN new \o ReplaceFrom(s, old, new, i + Len(old))
    ELSE <<s[i]>> \o ReplaceFrom(s, old, new, i + 1)

\* (the set comprehension binds the string to its value once, before the scan)
Replace(s, old, new) == CHOOSE r \in {ReplaceFrom(x, old, new, 1) : x \in {s}} : TRUE

\* Python's s.split("/")[-1]
LastSegment(s) ==
    LET slashes == {i \in 1..Len(s) : s[i] = "/"}
        last == IF slashes = {} THEN 0 ELSE CHOOSE i \in slashes : \A j \in slashes : j <= i
    IN SubSeq(s, last + 1, Len(s))

----------------------------------------------------------------------------
(* _save_crash_report *)

DefaultWait == 20
NameLimit == 50

FIND_PREFIX == <<"f", "i", "n", "d", "_", "e", "l", "e", "m", "e", "n", "t", "_", "t", "i", "m", "e", "o", "u", "t", "_">>
SET_TITLE_OP == <<"s", "e", "t", "_", "t", "i", "t", "l", "e", "_", "a", "n", "d", "_", "d", "e", "s", "c", "r", "i", "p", "t", "i", "o", "n", "_", "e", "r", "r", "o", "r">>

\* What the environment does to one crash report: may directories be created,
\* does the screenshot succeed, does the page markup get written.
FsOutcomes == [writable : BOOLEAN, shot : BOOLEAN, html : BOOLEAN]

\* crash_dir_name = f"{operation_name}_{timestamp}"
CrashDirName(operation_name, ts) == <<operation_name, ts>>

\* The body of _save_crash_report once crash_dir_name is known.
\* error is "none" when the method returns.
CrashReportIn(name, fs, root, dirs) ==
    IF root = "absent" /\ ~fs.writable
    THEN \* base_crash_dir.mkdir(exist_ok=True) fails
         [error |-> "OSError", root |-> root, dirs |-> dirs,
          trace |-> <<<<"mkdir_base_failed", name>>>>]
    ELSE IF name \in dirs \/ ~fs.writable
    THEN \* crash_event_path.mkdir() fails: the directory exists, or cannot be created
         [error |-> "OSError", root |-> "dir", dirs |-> dirs,
          trace |-> <<<<"mkdir_failed", name>>>>]
    ELSE [error |-> "none", root |-> "dir", dirs |-> dirs \cup {name},
          trace |-> <<<<"mkdir", name>>>> \o
                    (IF ~fs.shot
                     THEN << <<"screenshot_failed", name>>,
                             <<"log", "error", "crash_report_failed", name>> >>
                     ELSE IF ~fs.html
                     THEN << <<"screenshot", name>>, <<"html_failed", name>>,
                             <<"log", "error", "crash_report_failed", name>> >>
                     ELSE << <<"screenshot", name>>, <<"html", name>>,
                             <<"log", "error", "crash_report_saved", name>> >>)]

\* _save_crash_report: the directory name is computed once, then used throughout
SaveCrashReport(operation_name, ts, fs, root, dirs) ==
    CHOOSE res \in {CrashReportIn(name, fs, root, dirs) :
                      name \in {CrashDirName(operation_name, ts)}} : TRUE

----------------------------------------------------------------------------
(* _find_element *)

\* wait = self.wait if timeout is None else WebDriverWait(self.driver, timeout)
\* (timeout is <<>> for None, <<n>> for n)
EffectiveTimeout(timeout) == IF timeout = <<>> THEN DefaultWait ELSE timeout[1]

\* f"find_element_timeout_{value.replace('//', '').replace('/', '_')[:50]}"
OperationName(value) ==
    FIND_PREFIX \o Take(Replace(Replace(value, <<"/", "/">>, <<>>), <<"/">>, <<"_">>), NameLimit)

\* The error _find_element ends with after its crash report ran
FindRaises(crashError) == IF crashError # "none" THEN crashError ELSE "TimeoutException"

\* The except branch of _find_element, given what _save_crash_report did
FindElementTimedOut(wait, value, cr) ==
    [error |-> FindRaises(cr.error), found |-> FALSE, root |-> cr.root, dirs |-> cr.dirs,
     trace |-> <<wait, <<"log", "error", "find_timeout", value>>>> \o cr.trace]

\* The body of _find_element.  satisfied: does the wait condition hold within the timeout.
FindElement(by, value, condition, timeout, satisfied, ts, fs, root, dirs) ==
    LET wait == <<"wait_until", <<by, value, condition, EffectiveTimeout(timeout)>>>> IN
    IF satisfied
    THEN [error |-> "none", found |-> TRUE, root |-> root, dirs |-> dirs, trace |-> <<wait>>]
    ELSE CHOOSE res \in {FindElementTimedOut(wait, value, cr) :
                            cr \in {SaveCrashReport(OperationName(value), ts, fs, root, dirs)}} : TRUE

----------------------------------------------------------------------------
(* Inputs of the lookup operations *)

\* Locator values come from Constant.py; the ones below stand for them: one without
\* a slash, one XPath with "//" and "/", so that the operation name is really computed.
V_DONE_BUTTON == <<"d", "o", "n", "e", "-", "b", "u", "t", "t", "o", "n">>
V_VIDEO_URL == <<"/", "/", "a", "/", "b">>

LocatorValues == {V_DONE_BUTTON, V_VIDEO_URL}
Strategies == {"id", "xpath"}
Conditions == {"presence_of_element_located", "element_to_be_clickable"}
Timeouts == {<<>>, <<10>>}

NoCall == [op |-> "none", outcome |-> "none", error |-> "none", result |-> <<"none">>,
           input |-> <<"none">>, trace |-> <<>>]

Ended(op, input, error, result, trace) ==
    [op |-> op, outcome |-> IF error = "none" THEN "returned" ELSE "raised",
     error |-> error, result |-> result, input |-> input, trace |-> trace]

\* a direct call of _find_element
FindElementCall ==
    \E by \in Strategies, value \in LocatorValues, condition \in Conditions,
       timeout \in Timeouts, satisfied \in BOOLEAN, ts \in Timestamps, fs \in FsOutcomes :
      \E r \in {FindElement(by, value, condition, timeout, satisfied, ts, fs, crashRoot, crashDirs)} :
        /\ call' = Ended("_find_element", <<"lookup", satisfied>>, r.error,
                         IF r.found THEN <<"element">> ELSE <<"none">>, r.trace)
        /\ crashRoot' = r.root
        /\ crashDirs' = r.dirs
        /\ UNCHANGED <<progress, wu_pc, checked, clicks, fields>>

----------------------------------------------------------------------------
(* get_video_id *)

H_WATCH == <<"h", ":", "/", "/", "y", "/", "i", "d", "1">>
H_BARE == <<"i", "d", "2">>
H_TRAILING == <<"h", ":", "/", "/", "y", "/">>

Hrefs == {H_WATCH, H_BARE, H_TRAILING}

\* if video_url_element: return href.split("/")[-1]; return None
VideoIdResult(element, href) == IF element THEN <<"str", LastSegment(href)>> ELSE <<"none">>

GetVideoId ==
    \E satisfied \in BOOLEAN, href \in Hrefs, ts \in Timestamps, fs \in FsOutcomes :
      \E r \in {FindElement("xpath", V_VIDEO_URL, "presence_of_element_located", <<>>,
                              satisfied, ts, fs, crashRoot, crashDirs)} :
        /\ call' = IF r.error # "none"
                   THEN Ended("get_video_id", <<"video_url", satisfied, href>>, r.error, <<"none">>, r.trace)
                   ELSE Ended("get_video_id", <<"video_url", satisfied, href>>, "none",
                              VideoIdResult(r.found, href),
                              r.trace \o << <<"get_attribute", "href">> >>)
        /\ crashRoot' = r.root
        /\ crashDirs' = r.dirs
        /\ UNCHANGED <<progress, wu_pc, checked, clicks, fields>>

----------------------------------------------------------------------------
(* publish_video *)

PublishTimeout == 7200

Dialogs == {"absent", "hidden", "displayed"}

\* the body of the try block: find the error dialog, raise if it is displayed
ErrorDialogRaises(dialog) ==
    CASE dialog = "absent" -> "NoSuchElementException"
      [] dialog = "displayed" -> "RuntimeError"
      [] OTHER -> "none"

\* except: pass
BareExcept(error) == "none"

PublishVideo ==
    \E satisfied \in BOOLEAN, dialog \in Dialogs, ts \in Timestamps, fs \in FsOutcomes :
      \E r \in {FindElement("id", V_DONE_BUTTON, "element_to_be_clickable", <<PublishTimeout>>,
                              satisfied, ts, fs, crashRoot, crashDirs)} :
        LET check == << <<"find_error_dialog", dialog>> >>
            after == BareExcept(ErrorDialogRaises(dialog))
        IN
        /\ call' = IF r.error # "none"
                   THEN Ended("publish_video", <<"publish", satisfied, dialog>>, r.error, <<"none">>, r.trace)
                   ELSE IF after # "none"
                   THEN Ended("publish_video", <<"publish", satisfied, dialog>>, after, <<"none">>,
                              r.trace \o check)
                   ELSE Ended("publish_video", <<"publish", satisfied, dialog>>, "none", <<"none">>,
                              r.trace \o check \o
                              << <<"click", V_DONE_BUTTON>>, <<"log", "debug", "publish_clicked", V_DONE_BUTTON>> >>)
        /\ crashRoot' = r.root
        /\ crashDirs' = r.dirs
        /\ UNCHANGED <<progress, wu_pc, checked, clicks, fields>>

----------------------------------------------------------------------------
(* _click_if_not_selected *)

Controls == {"NOT_MADE_FOR_KIDS", "PAID_PROMOTION"}

V_NOT_MADE_FOR_KIDS == <<"k", "i", "d", "s">>
V_PAID_PROMOTION == <<"p", "a", "i", "d">>

ControlLocator(control) ==
    IF control = "NOT_MADE_FOR_KIDS" THEN <<"name", V_NOT_MADE_FOR_KIDS>> ELSE <<"id", V_PAID_PROMOTION>>

\* element.get_attribute("checked"): <<>> for None, else the attribute's value
CheckedAttribute(isChecked) == IF isChecked THEN <<"true">> ELSE <<>>

\* a faulty variant of AlreadySelected: the attribute is not consulted
AlreadySelectedIgnored(attribute) == FALSE

\* if element.get_attribute("checked") is not None
AlreadySelected(attribute) == attribute # <<>>

\* the lines after the lookup: [click |-> was a synthetic click issued, trace]
ToggleAfterLookup(control, attribute) ==
    IF AlreadySelected(attribute)
    THEN [click |-> FALSE,
          trace |-> << <<"get_attribute", "checked">>,
                       <<"log", "debug", "already_selected", control>> >>]
    ELSE [click |-> TRUE,
          trace |-> << <<"get_attribute", "checked">>,
                       <<"execute_script_click", control>>,
                       <<"log", "debug", "selected", control>> >>]

\* a call of _click_if_not_selected; a synthetic click sets the control's checked attribute
ClickIfNotSelected ==
    \E control \in Controls, satisfied \in BOOLEAN, ts \in Timestamps, fs \in FsOutcomes :
      /\ clicks[control] < MaxClicks
      /\ \E r \in {FindElement(ControlLocator(control)[1], ControlLocator(control)[2],
                               "presence_of_element_located", <<>>, satisfied, ts, fs,
                               crashRoot, crashDirs)} :
         \E t \in {ToggleAfterLookup(control, CheckedAttribute(checked[control]))} :
           LET input == <<"toggle", control, satisfied, checked[control]>> IN
           /\ crashRoot' = r.root
           /\ crashDirs' = r.dirs
           /\ IF r.error # "none"
              THEN /\ call' = Ended("_click_if_not_selected", input, r.error, <<"none">>, r.trace)
                   /\ UNCHANGED <<checked, clicks>>
              ELSE /\ call' = Ended("_click_if_not_selected", input, "none", <<"none">>,
                                    r.trace \o t.trace)
                   /\ checked' = IF t.click THEN [checked EXCEPT ![control] = TRUE] ELSE checked
                   /\ clicks' = IF t.click THEN [clicks EXCEPT ![control] = @ + 1] ELSE clicks
      /\ UNCHANGED <<progress, wu_pc, fields>>

----------------------------------------------------------------------------
(* _clear_field and _write_in_field, against a text field that records what it is sent *)

FieldIds == {"title", "description"}

OLD_TEXT == <<"o", "l", "d">>

K_CONTROL_A == <<"CONTROL+a">>
K_COMMAND_A == <<"COMMAND+a">>
K_BACKSPACE == <<"BACKSPACE">>

Platforms == {"Darwin", "Linux"}

\* the text field: what a click and each key sequence do to its content and selection
FieldClick(fld) == [fld EXCEPT !.selected = FALSE]

FieldSendKeys(fld, keys, platform) ==
    IF keys = K_COMMAND_A
    THEN (IF platform = "Darwin" THEN [fld EXCEPT !.selected = TRUE] ELSE fld)
    ELSE IF keys = K_CONTROL_A
    THEN (IF platform # "Darwin" THEN [fld EXCEPT !.selected = TRUE] ELSE fld)
    ELSE IF keys = K_BACKSPACE
    THEN (IF fld.selected THEN [content |-> <<>>, selected |-> FALSE]
          ELSE [fld EXCEPT !.content = SubSeq(fld.content, 1, Len(fld.content) - 1)])
    ELSE (IF fld.selected THEN [content |-> keys, selected |-> FALSE]
          ELSE [fld EXCEPT !.content = fld.content \o keys])

\* Keys.COMMAND + "a" on Darwin, Keys.CONTROL + "a" elsewhere
SelectAllKeys(platform) == IF platform = "Darwin" THEN K_COMMAND_A ELSE K_CONTROL_A

\* a faulty variant of ClearFieldKeys: the delete key is not sent
ClearFieldKeysNoDelete(platform) == <<SelectAllKeys(platform)>>

\* the key sequences _clear_field sends after its click, in order
ClearFieldKeys(platform) == <<SelectAllKeys(platform), K_BACKSPACE>>

RECURSIVE SendAll(_, _, _, _)
SendAll(fld, f, keySeqs, platform) ==
    IF keySeqs = <<>> THEN [fld |-> fld, trace |-> <<>>]
    ELSE LET rest == SendAll(FieldSendKeys(fld, Head(keySeqs), platform), f, Tail(keySeqs), platform) IN
         [fld |-> rest.fld,
          trace |-> << <<"send_keys", <<f, Head(keySeqs)>>>>, <<"sleep", "ACTION_WAIT_TIME">> >> \o rest.trace]

\* _clear_field: click, sleep, select all, sleep, backspace
ClearField(fld, f, platform) ==
    LET sent == SendAll(FieldClick(fld), f, ClearFieldKeys(platform), platform) IN
    [fld |-> sent.fld,
     trace |-> << <<"field_click", f>>, <<"sleep", "ACTION_WAIT_TIME">> >> \o
               SubSeq(sent.trace, 1, Len(sent.trace) - 1)]

\* _write_in_field.  interactable: does the field accept the click
WriteInField(fld, f, text, select_all, platform, interactable) ==
    IF ~interactable
    THEN [error |-> "WebDriverException", fld |-> fld, trace |-> << <<"field_click_failed", f>> >>]
    ELSE LET before == IF select_all THEN ClearField(fld, f, platform)
                       ELSE [fld |-> FieldClick(fld),
                             trace |-> << <<"field_click", f>>, <<"sleep", "ACTION_WAIT_TIME">> >>]
         IN [error |-> "none", fld |-> FieldSendKeys(before.fld, text, platform),
             trace |-> before.trace \o << <<"send_keys", <<f, text>>>> >>]

NEW_TEXT == <<"n", "e", "w">>
TWO_LINES == <<"a", "\n", "b">>

Titles == {NEW_TEXT}
Descriptions == {<<>>, TWO_LINES}

\* a direct call of _write_in_field
WriteInFieldCall ==
    \E f \in FieldIds, text \in Titles, select_all \in BOOLEAN, platform \in Platforms,
       interactable \in BOOLEAN :
      /\ select_all \/ Len(fields[f].content) + Len(text) <= MaxContent
      /\ \E w \in {WriteInField(fields[f], f, text, select_all, platform, interactable)} :
           /\ call' = Ended("_write_in_field",
                            <<"write", f, text, select_all, platform, interactable, fields[f].content>>,
                            w.error, <<"none">>, w.trace)
           /\ fields' = [fields EXCEPT ![f] = w.fld]
      /\ UNCHANGED <<crashRoot, crashDirs, progress, wu_pc, checked, clicks>>

----------------------------------------------------------------------------
(* set_title_and_description *)

\* description.replace("\n", Keys.ENTER)
DescriptionKeys(description) == Replace(description, <<"\n">>, <<"ENTER">>)

\* the description part of the try block, once the title is written
DescriptionStep(flds, description, platform, broken, trace) ==
    IF description = <<>>
    THEN [error |-> "none", fields |-> flds, trace |-> trace]
    ELSE LET w == WriteInField(flds["description"], "description", description, TRUE, platform,
                               broken # "description") IN
         [error |-> w.error, fields |-> [flds EXCEPT !["description"] = w.fld],
          trace |-> trace \o w.trace \o
                    (IF w.error = "none"
                     THEN << <<"log", "debug", "description_filled", description>> >>
                     ELSE <<>>)]

\* the try block.  nBoxes: how many text boxes the page shows within the wait
TitleAndDescriptionBody(flds, nBoxes, title, description, platform, broken) ==
    LET wait == <<"wait_until_all", nBoxes>> IN
    IF nBoxes = 0
    THEN [error |-> "TimeoutException", fields |-> flds, trace |-> <<wait>>]
    ELSE IF nBoxes < 2
    THEN [error |-> "RuntimeError", fields |-> flds, trace |-> <<wait>>]
    ELSE LET w == WriteInField(flds["title"], "title", title, TRUE, platform, broken # "title") IN
         IF w.error # "none"
         THEN [error |-> w.error, fields |-> [flds EXCEPT !["title"] = w.fld],
               trace |-> <<wait>> \o w.trace]
         ELSE DescriptionStep([flds EXCEPT !["title"] = w.fld], DescriptionKeys(description),
                              platform, broken,
                              <<wait>> \o w.trace \o << <<"log", "debug", "title_set", title>> >>)

\* except Exception as e: self._save_crash_report(...); raise e
TitleAndDescriptionRaises(bodyError, crashError) ==
    IF crashError # "none" THEN crashError ELSE bodyError

SetTitleAndDescription ==
    \E nBoxes \in 0..2, title \in Titles, description \in Descriptions, platform \in Platforms,
       broken \in {"none", "title", "description"}, ts \in Timestamps, fs \in FsOutcomes :
      \E b \in {TitleAndDescriptionBody(fields, nBoxes, title, description, platform, broken)} :
        LET input == <<"set_title", nBoxes, description, broken>> IN
        /\ fields' = b.fields
        /\ IF b.error = "none"
           THEN /\ call' = Ended("set_title_and_description", input, "none", <<"none">>, b.trace)
                /\ UNCHANGED <<crashRoot, crashDirs>>
           ELSE \E cr \in {SaveCrashReport(SET_TITLE_OP, ts, fs, crashRoot, crashDirs)} :
                /\ call' = Ended("set_title_and_description", input,
                                 TitleAndDescriptionRaises(b.error, cr.error), <<"none">>,
                                 b.trace \o cr.trace)
                /\ crashRoot' = cr.root
                /\ crashDirs' = cr.dirs
        /\ UNCHANGED <<progress, wu_pc, checked, clicks>>

----------------------------------------------------------------------------
(* Initial state and the lookup specification *)

\* everything but the toggle controls
Idle ==
    /\ crashRoot \in {"absent", "dir"}
    /\ crashDirs = {}
    /\ call = NoCall
    /\ progress = <<"gone">>
    /\ wu_pc = "idle"
    /\ clicks = [c \in Controls |-> 0]
    /\ fields = [f \in FieldIds |-> [content |-> OLD_TEXT, selected |-> FALSE]]

Init == Idle /\ checked = [c \in Controls |-> FALSE]

\* the page may show a control already checked
ToggleInit == Idle /\ checked \in [Controls -> BOOLEAN]

FindNext == FindElementCall \/ GetVideoId \/ PublishVideo

FindSpec == Init /\ [][FindNext]_vars

ToggleNext == ClickIfNotSelected

ToggleSpec == ToggleInit /\ [][ToggleNext]_vars

FieldNext == WriteInFieldCall \/ SetTitleAndDescription

FieldSpec == Init /\ [][FieldNext]_vars

----------------------------------------------------------------------------
(* wait_for_upload_to_complete *)

ShortTimeout == 10

V_UPLOADING_STATUS == <<"/", "/", "s", "p", "a", "n", "[", "@", "i", "d", "=", "'", "p", "'", "]">>

T_UPLOADING == <<"U", "p", "l", "o", "a", "d", "i", "n", "g", " ", "3", "2", "%">>
T_PROCESSING == <<"P", "r", "o", "c", "e", "s", "s", "i", "n", "g", " ", "H", "D">>
T_UPLOAD_COMPLETE == <<"U", "p", "l", "o", "a", "d", " ", "c", "o", "m", "p", "l", "e", "t", "e">>
T_CHECKS_UPPER == <<"C", "H", "E", "C", "K", "S", " ", "C", "O", "M", "P", "L", "E", "T", "E">>
T_PCT_COMPLETE == <<"1", "0", "0", "%", " ", "U", "p", "l", "o", "a", "d", " ", "c", "o", "m", "p", "l", "e", "t", "e">>
T_LOOSE_PCT == <<"5", " ", "%", " ", "l", "e", "f", "t">>
T_TWO_PCT == <<"x", "1", " ", "2", "2", "%", " ", "o", "f", " ", "9", "0", "%">>
T_EMPTY == <<>>

ProgressTexts == {T_UPLOADING, T_PROCESSING, T_UPLOAD_COMPLETE, T_CHECKS_UPPER,
                  T_PCT_COMPLETE, T_LOOSE_PCT, T_TWO_PCT, T_EMPTY}

PHRASE_UPLOAD == <<"u", "p", "l", "o", "a", "d", " ", "c", "o", "m", "p", "l", "e", "t", "e">>
PHRASE_CHECKS == <<"c", "h", "e", "c", "k", "s", " ", "c", "o", "m", "p", "l", "e", "t", "e">>

\* is s[i..j] a non-empty run of digits followed by "%"
DigitsThenPercent(s, i, j) ==
    /\ i <= j
    /\ j + 1 <= Len(s)
    /\ \A k \in i..j : s[k] \in Digits
    /\ s[j + 1] = "%"

\* a faulty variant of ReSearch: the pattern (\d)% -- one digit only
ReSearchOneDigit(text) ==
    LET starts == {i \in 1..Len(text) : DigitsThenPercent(text, i, i)} IN
    IF starts = {} THEN <<>>
    ELSE LET i == CHOOSE a \in starts : \A b \in starts : a <= b
         IN <<SubSeq(text, i, i)>>

\* re.search(r"(\d+)%", text): <<>> when there is no match, else <<group(1)>>
ReSearch(text) ==
    LET starts == {i \in 1..Len(text) : \E j \in i..Len(text) : DigitsThenPercent(text, i, j)} IN
    IF starts = {} THEN <<>>
    ELSE LET i == CHOOSE a \in starts : \A b \in starts : a <= b
             j == CHOOSE e \in i..Len(text) : DigitsThenPercent(text, i, e)
         IN <<SubSeq(text, i, j)>>

\* if match: log the percentage, else: log the whole status
ProgressLog(text) ==
    LET match == ReSearch(text) IN
    IF match # <<>>
    THEN <<"log", "debug", "upload_progress", match[1]>>
    ELSE <<"log", "debug", "upload_status", text>>

\* a faulty variant of IsComplete: the text is compared without lower()
IsCompleteCaseSensitive(text) ==
    Contains(PHRASE_UPLOAD, text) \/ Contains(PHRASE_CHECKS, text)

\* "upload complete" in text.lower() or "checks complete" in text.lower()
IsComplete(text) ==
    LET progress_text_compare == Lower(text) IN
    Contains(PHRASE_UPLOAD, progress_text_compare) \/ Contains(PHRASE_CHECKS, progress_text_compare)

\* One pass through the body of the while loop, given what the lookup did.
\* exit: "continue" (next iteration), "returned" (break), "raised" (an error leaves the method)
UploadIterationAfter(page, r) ==
    IF r.error = "TimeoutException"
    THEN [exit |-> "returned", error |-> "none", root |-> r.root, dirs |-> r.dirs,
          trace |-> r.trace \o << <<"log", "warning", "progress_not_found", V_UPLOADING_STATUS>> >>]
    ELSE IF r.error # "none"
    THEN [exit |-> "raised", error |-> r.error, root |-> r.root, dirs |-> r.dirs, trace |-> r.trace]
    ELSE LET text == page[2] IN
         IF IsComplete(text)
         THEN [exit |-> "returned", error |-> "none", root |-> r.root, dirs |-> r.dirs,
               trace |-> r.trace \o <<ProgressLog(text), <<"log", "debug", "upload_finished", text>>>>]
         ELSE [exit |-> "continue", error |-> "none", root |-> r.root, dirs |-> r.dirs,
               trace |-> r.trace \o <<ProgressLog(text), <<"sleep", "USER_WAITING_TIME">>>>]

UploadIteration(page, ts, fs, root, dirs) ==
    CHOOSE res \in {UploadIterationAfter(page, r) :
                      r \in {FindElement("xpath", V_UPLOADING_STATUS, "presence_of_element_located",
                                          <<ShortTimeout>>, page[1] = "text", ts, fs, root, dirs)}} : TRUE

\* the caller enters wait_for_upload_to_complete
StartWait ==
    /\ wu_pc # "polling"
    /\ wu_pc' = "polling"
    /\ call' = [op |-> "wait_for_upload_to_complete", outcome |-> "none", error |-> "none",
                result |-> <<"none">>, input |-> <<"start">>,
                trace |-> << <<"log", "debug", "waiting_for_upload", V_UPLOADING_STATUS>> >>]
    /\ UNCHANGED <<crashRoot, crashDirs, progress, checked, clicks, fields>>

\* one iteration of the loop, against the page as it is now
PollIteration ==
    /\ wu_pc = "polling"
    /\ \E ts \in Timestamps, fs \in FsOutcomes :
      \E it \in {UploadIteration(progress, ts, fs, crashRoot, crashDirs)} :
        /\ wu_pc' = IF it.exit = "continue" THEN "polling" ELSE it.exit
        /\ call' = [op |-> "poll", outcome |-> IF it.exit = "continue" THEN "none" ELSE it.exit,
                    error |-> it.error, result |-> <<"none">>, input |-> progress, trace |-> it.trace]
        /\ crashRoot' = it.root
        /\ crashDirs' = it.dirs
    /\ UNCHANGED <<progress, checked, clicks, fields>>

\* the site updates (or removes) the progress element
PageChange ==
    /\ \E p \in {<<"gone">>} \cup {<<"text", t>> : t \in ProgressTexts} :
        /\ p # progress
        /\ progress' = p
    /\ UNCHANGED <<crashRoot, crashDirs, call, wu_pc, checked, clicks, fields>>

UploadNext == StartWait \/ PollIteration \/ PageChange

UploadSpec == Init /\ [][UploadNext]_vars

\* the loop keeps running once entered; the caller and the site are under no obligation
FairUploadSpec == UploadSpec /\ WF_vars(PollIteration)

\* trace helpers
HasEvent(trace, kind) == \E i \in 1..Len(trace) : trace[i][1] = kind
HasLog(trace, msg) == \E i \in 1..Len(trace) : trace[i][1] = "log" /\ trace[i][3] = msg
CrashAttempted(trace) ==
    \E i \in 1..Len(trace) : trace[i][1] \in {"mkdir", "mkdir_failed", "mkdir_base_failed"}


\* C1: a _find_element call whose condition is never satisfied logs the failure,
\* attempts a crash report, and ends by raising the timeout error -- never
\* returning normally, never ending with another error.
C1_TimeoutAlwaysPropagates ==
    (call.op = "_find_element" /\ call.input = <<"lookup", FALSE>>) =>
        /\ HasLog(call.trace, "find_timeout")
        /\ CrashAttempted(call.trace)
        /\ call.outcome = "raised"
        /\ call.error = "TimeoutException"

\* C2: in publish_video, once Done is clickable, a displayed error dialog makes
\* the call raise a runtime error without clicking Done; Done is clicked only
\* when the dialog is absent or not displayed.
C2_ErrorDialogAbortsPublish ==
    (call.op = "publish_video" /\ call.input[2] = TRUE) =>
        /\ call.input[3] = "displayed" =>
              /\ call.outcome = "raised"
              /\ call.error = "RuntimeError"
              /\ ~HasEvent(call.trace, "click")
        /\ HasEvent(call.trace, "click") => call.input[3] \in {"absent", "hidden"}

\* C9: get_video_id returns the last '/'-separated segment of the link when
\* the element is located, and returns none (no error) when it is not.
C9_VideoIdOrNone ==
    (call.op = "get_video_id") =>
        /\ call.input[2] = TRUE =>
              call.outcome = "returned" /\ call.result = <<"str", LastSegment(call.input[3])>>
        /\ call.input[2] = FALSE =>
              call.outcome = "returned" /\ call.result = <<"none">>

----------------------------------------------------------------------------
(* Claims about wait_for_upload_to_complete *)

\* the progress texts that hold a completion phrase, in some letter case
CompletionTexts == {T_UPLOAD_COMPLETE, T_CHECKS_UPPER, T_PCT_COMPLETE}

\* the progress texts that hold "NN%", with the NN the pattern finds first
ExpectedPercent ==
    (T_UPLOADING :> <<"3", "2">>) @@ (T_PCT_COMPLETE :> <<"1", "0", "0">>) @@ (T_TWO_PCT :> <<"2", "2">>)

CountEvents(trace, kind) == Cardinality({i \in 1..Len(trace) : trace[i][1] = kind})
CountLogs(trace, msg) ==
    Cardinality({i \in 1..Len(trace) : trace[i][1] = "log" /\ trace[i][3] = msg})
LastEvent(trace) == trace[Len(trace)]

FoundIteration == call.op = "poll" /\ call.input[1] = "text"
Continues ==
    /\ wu_pc = "polling"
    /\ call.outcome = "none"
    /\ CountEvents(call.trace, "sleep") = 1
    /\ LastEvent(call.trace) = <<"sleep", "USER_WAITING_TIME">>

\* C3: an iteration that finds the element with a completion phrase in its
\* text (any letter case, with or without a percentage) leaves the loop in the
\* COMPLETE state at once: the finished message is logged last, there is one
\* lookup and no sleep, and the call has returned without raising.
C3_CompletionPhraseExits ==
    (FoundIteration /\ call.input[2] \in CompletionTexts) =>
        /\ wu_pc = "returned"
        /\ call.outcome = "returned"
        /\ call.error = "none"
        /\ LastEvent(call.trace) = <<"log", "debug", "upload_finished", call.input[2]>>
        /\ CountEvents(call.trace, "wait_until") = 1
        /\ CountEvents(call.trace, "sleep") = 0

C3_Witness ==
    /\ FoundIteration
    /\ call.input[2] = T_CHECKS_UPPER
    /\ wu_pc = "returned"

\* exactly one of the two log forms per iteration that finds the element
OneLogForm ==
    FoundIteration =>
        CountLogs(call.trace, "upload_progress") + CountLogs(call.trace, "upload_status") = 1

LogsPercent ==
    \E i \in 1..Len(call.trace) :
        call.trace[i] = <<"log", "debug", "upload_progress", ExpectedPercent[call.input[2]]>>

LogsRawStatus ==
    \E i \in 1..Len(call.trace) :
        call.trace[i] = <<"log", "debug", "upload_status", call.input[2]>>

\* C4 as claimed: every text holding "NN%" has NN logged and the loop
\* continues; a text with neither a percentage nor a completion phrase has the
\* raw text logged and the loop continues; one log form per found iteration.
C4_PercentAlwaysContinues ==
    /\ OneLogForm
    /\ (FoundIteration /\ call.input[2] \in DOMAIN ExpectedPercent) =>
          LogsPercent /\ Continues
    /\ (FoundIteration /\ call.input[2] \notin DOMAIN ExpectedPercent
                       /\ call.input[2] \notin CompletionTexts) =>
          LogsRawStatus /\ Continues

\* C4 amended: every text holding "NN%" has NN logged, and the loop continues
\* when the text holds no completion phrase; a text with neither a percentage
\* nor a completion phrase has the raw text logged and the loop continues; one
\* log form per found iteration.
C4_PercentContinuesUnlessComplete ==
    /\ OneLogForm
    /\ (FoundIteration /\ call.input[2] \in DOMAIN ExpectedPercent) =>
          /\ LogsPercent
          /\ call.input[2] \notin CompletionTexts => Continues
    /\ (FoundIteration /\ call.input[2] \notin DOMAIN ExpectedPercent
                       /\ call.input[2] \notin CompletionTexts) =>
          LogsRawStatus /\ Continues

C4_Witness ==
    /\ FoundIteration
    /\ call.input[2] = T_TWO_PCT
    /\ wu_pc = "polling"
    /\ LogsPercent

\* C5: an iteration whose lookup times out ends the loop there: the warning is
\* logged and the call returns normally, whatever the crash-report step did.
C5_TimeoutExitsWithoutRaising ==
    (call.op = "poll" /\ call.input[1] = "gone") =>
        /\ wu_pc = "returned"
        /\ call.outcome = "returned"
        /\ call.error = "none"
        /\ HasLog(call.trace, "progress_not_found")

\* the page shows a completion phrase, or the progress element is not found
PageEnding == progress[1] = "gone" \/ progress[2] \in CompletionTexts

\* C10: the loop has exactly two exits (completion phrase, lookup timeout) and
\* no iteration bound; if the element eventually shows a completion phrase or
\* stops being found the call eventually returns; an iteration that finds the
\* element without a completion phrase neither returns nor raises and is
\* followed by exactly one sleep.
C10_TwoExitsAndReturns ==
    /\ [][(wu_pc = "polling" /\ wu_pc' # "polling") => PageEnding]_vars
    /\ []((FoundIteration /\ call.input[2] \notin CompletionTexts) => Continues)
    /\ (wu_pc = "polling" /\ PageEnding) ~> (wu_pc = "returned" \/ ~PageEnding)


----------------------------------------------------------------------------
(* Claims about _click_if_not_selected *)

\* C6: a call that finds its control issues no click and changes nothing on
\* the page when the checked attribute is set, and exactly one synthetic click
\* otherwise; so with a click setting the attribute, repeated calls click a
\* control at most once in total.
C6_AtMostOneClick ==
    /\ [][(call'.op = "_click_if_not_selected" /\ call'.input[3]) =>
            /\ call'.outcome = "returned"
            /\ checked[call'.input[2]] =>
                  /\ CountEvents(call'.trace, "execute_script_click") = 0
                  /\ UNCHANGED <<checked, clicks, fields, progress>>
            /\ ~checked[call'.input[2]] =>
                  /\ CountEvents(call'.trace, "execute_script_click") = 1
                  /\ clicks' = [clicks EXCEPT ![call'.input[2]] = @ + 1]]_vars
    /\ [](\A c \in Controls : clicks[c] <= 1)

\* a repeated call on a control that an earlier call clicked
C6_Witness ==
    /\ call.op = "_click_if_not_selected"
    /\ call.input[3]
    /\ call.input[4]
    /\ clicks[call.input[2]] = 1
    /\ CountEvents(call.trace, "execute_script_click") = 0

----------------------------------------------------------------------------
(* Claims about _write_in_field and set_title_and_description *)

\* what the call sent to the field, in order
FieldCalls(trace) == SelectSeq(trace, LAMBDA e : e[1] \in {"field_click", "send_keys"})

WriteReturned == call.op = "_write_in_field" /\ call.outcome = "returned"

\* C7: with clear requested the field receives exactly click, the platform's
\* select-all combination, the delete key, the new text, and ends holding only
\* the new text; without it the field receives exactly click, the new text,
\* and keeps what it held in front of the new text.
C7_WriteOrder ==
    WriteReturned =>
        LET f == call.input[2]
            text == call.input[3]
            select_all == call.input[4]
            platform == call.input[5]
            old == call.input[7]
            combo == IF platform = "Darwin" THEN <<"COMMAND+a">> ELSE <<"CONTROL+a">>
        IN
        IF select_all
        THEN /\ FieldCalls(call.trace) =
                    << <<"field_click", f>>, <<"send_keys", <<f, combo>>>>,
                       <<"send_keys", <<f, <<"BACKSPACE">>>>>>, <<"send_keys", <<f, text>>>> >>
             /\ fields[f].content = text
        ELSE /\ FieldCalls(call.trace) = << <<"field_click", f>>, <<"send_keys", <<f, text>>>> >>
             /\ fields[f].content = old \o text

C7_Witness ==
    /\ WriteReturned
    /\ call.input[4]
    /\ call.input[7] = OLD_TEXT
    /\ fields[call.input[2]].content = NEW_TEXT

\* the error the try block of set_title_and_description ends with, from its inputs
ExpectedBodyError(nBoxes, description, broken) ==
    IF nBoxes = 0 THEN "TimeoutException"
    ELSE IF nBoxes = 1 THEN "RuntimeError"
    ELSE IF broken = "title" THEN "WebDriverException"
    ELSE IF broken = "description" /\ description # <<>> THEN "WebDriverException"
    ELSE "none"

\* C8: with fewer than two text fields the call raises a runtime error after
\* exactly one crash report and writes to neither field; any failure inside
\* the step produces exactly one crash report and surfaces the same error.
C8_OneCrashReportSameError ==
    (call.op = "set_title_and_description") =>
        LET expected == ExpectedBodyError(call.input[2], call.input[3], call.input[4]) IN
        /\ call.input[2] = 1 =>
              /\ call.error = "RuntimeError"
              /\ FieldCalls(call.trace) = <<>>
        /\ expected # "none" =>
              /\ call.outcome = "raised"
              /\ call.error = expected
              /\ CountEvents(call.trace, "mkdir") = 1

====
